---- MODULE Spec2Model ----
(***************************************************************************)
(* Model of src/src/documentStructure.py: HeadingDetector,                 *)
(* ContentTypeIdentifier and StructuredDocumentBuilder (build, to_dict).   *)
(*                                                                         *)
(* A Python str is modelled as a sequence of one-character strings, so     *)
(* that the regular expressions of the source are computed character by    *)
(* character.  A character outside ASCII is written as its code point,     *)
(* e.g. "U+2022" for the bullet glyph.                                     *)
(***************************************************************************)
EXTENDS Integers, Sequences, FiniteSets, TLC

\* ------------------------------------------------------------------------
\* Characters and the str methods the source uses
\* ------------------------------------------------------------------------

DigitChars == <<"0", "1", "2", "3", "4", "5", "6", "7", "8", "9">>

UpperChars == <<"A", "B", "C", "D", "E", "F", "G", "H", "I", "J", "K", "L", "M",
                "N", "O", "P", "Q", "R", "S", "T", "U", "V", "W", "X", "Y", "Z">>

LowerChars == <<"a", "b", "c", "d", "e", "f", "g", "h", "i", "j", "k", "l", "m",
                "n", "o", "p", "q", "r", "s", "t", "u", "v", "w", "x", "y", "z">>

Range(f) == {f[i] : i \in DOMAIN f}

\* \s of re and the characters str.strip() removes
IsSpace(c) == c \in {" ", "\t", "\r", "\f"}

\* \d
IsDigit(c) == c \in Range(DigitChars)

\* [A-Z]
IsUpper(c) == c \in Range(UpperChars)

\* [A-Z] under re.IGNORECASE
IsLetter(c) == c \in Range(UpperChars) \cup Range(LowerChars)

\* case folding of re.IGNORECASE
Lower(c) ==
    IF IsUpper(c)
    THEN LowerChars[CHOOSE i \in DOMAIN UpperChars : UpperChars[i] = c]
    ELSE c

\* int() of one decimal digit
DigitValue(c) == (CHOOSE i \in DOMAIN DigitChars : DigitChars[i] = c) - 1

\* s[i-1:] (1-based i), empty when i is past the end
Tail_From(s, i) == IF i > Len(s) THEN <<>> ELSE SubSeq(s, i, Len(s))

\* index of the first non-whitespace character, Len(s)+1 when there is none
FirstNonSpace(s) ==
    IF \A i \in 1..Len(s) : IsSpace(s[i])
    THEN Len(s) + 1
    ELSE CHOOSE i \in 1..Len(s) :
            ~IsSpace(s[i]) /\ \A j \in 1..(i - 1) : IsSpace(s[j])

\* index of the last non-whitespace character, 0 when there is none
LastNonSpace(s) ==
    IF \A i \in 1..Len(s) : IsSpace(s[i])
    THEN 0
    ELSE CHOOSE i \in 1..Len(s) :
            ~IsSpace(s[i]) /\ \A j \in (i + 1)..Len(s) : IsSpace(s[j])

\* str.strip()
Strip(s) ==
    IF LastNonSpace(s) = 0 THEN <<>>
    ELSE SubSeq(s, FirstNonSpace(s), LastNonSpace(s))

\* index of the last character of the run of characters satisfying the class
\* that starts at i; i-1 when s[i] is not in the class
RECURSIVE DigitsEnd(_, _)
DigitsEnd(s, i) ==
    IF i <= Len(s) /\ IsDigit(s[i]) THEN DigitsEnd(s, i + 1) ELSE i - 1

RECURSIVE SpacesEnd(_, _)
SpacesEnd(s, i) ==
    IF i <= Len(s) /\ IsSpace(s[i]) THEN SpacesEnd(s, i + 1) ELSE i - 1

\* int() of the decimal digits s[i..j]
RECURSIVE ParseInt(_, _, _)
ParseInt(s, i, j) ==
    IF j < i THEN 0 ELSE ParseInt(s, i, j - 1) * 10 + DigitValue(s[j])

\* the literal word w occurs in s at index i (exact case)
HasLiteralAt(s, i, w) ==
    /\ i >= 1
    /\ i + Len(w) - 1 <= Len(s)
    /\ \A k \in 1..Len(w) : s[i + k - 1] = w[k]

\* the literal word w (given in lower case) occurs in s at index i, re.IGNORECASE
HasWordAt(s, i, w) ==
    /\ i >= 1
    /\ i + Len(w) - 1 <= Len(s)
    /\ \A k \in 1..Len(w) : Lower(s[i + k - 1]) = w[k]

\* str.count(c)
CountChar(s, c) == Cardinality({i \in 1..Len(s) : s[i] = c})

\* the value Python's None
None == [type |-> "None"]

\* ------------------------------------------------------------------------
\* HeadingDetector
\* ------------------------------------------------------------------------

\* NUMBERED_HEADING = ^(\d+(?:\.\d+)*)\s+(.+)$ : the end of group 1, the longest
\* prefix \d+(\.\d+)* of s (0 when s does not start with a digit).  A shorter
\* numeral is followed by a digit or a dot, never by \s, so backtracking into
\* group 1 cannot make the pattern match.
RECURSIVE NumeralEndFrom(_, _)
NumeralEndFrom(s, e) ==
    IF e + 2 <= Len(s) /\ s[e + 1] = "." /\ IsDigit(s[e + 2])
    THEN NumeralEndFrom(s, DigitsEnd(s, e + 2))
    ELSE e

NumeralEnd(s) == IF DigitsEnd(s, 1) = 0 THEN 0 ELSE NumeralEndFrom(s, DigitsEnd(s, 1))

\* NUMBERED_HEADING.match(s): the numeral, one whitespace at least, one more
\* character at least
NUMBERED_HEADING(s) ==
    LET e == NumeralEnd(s)
    IN  /\ e >= 1
        /\ e + 2 <= Len(s)
        /\ IsSpace(s[e + 1])

HEADING_WORD == <<"[", "H", "E", "A", "D", "I", "N", "G">>

\* HEADING_MARKER = ^\[HEADING\s+(\d+)\]\s*(.+)$ : the index of "]", 0 when the
\* pattern does not match
MarkerClose(s) ==
    LET w == SpacesEnd(s, Len(HEADING_WORD) + 1)
        d == DigitsEnd(s, w + 1)
    IN  IF /\ HasLiteralAt(s, 1, HEADING_WORD)
           /\ w >= Len(HEADING_WORD) + 1
           /\ d >= w + 1
           /\ d + 2 <= Len(s)
           /\ s[d + 1] = "]"
        THEN d + 1
        ELSE 0

HEADING_MARKER(s) == MarkerClose(s) # 0

KW_NUMBERED == << <<"c", "h", "a", "p", "t", "e", "r">>, <<"u", "n", "i", "t">>,
                  <<"s", "e", "c", "t", "i", "o", "n">>, <<"p", "a", "r", "t">> >>

KW_PLAIN == << <<"i", "n", "t", "r", "o", "d", "u", "c", "t", "i", "o", "n">>,
               <<"c", "o", "n", "c", "l", "u", "s", "i", "o", "n">>,
               <<"s", "u", "m", "m", "a", "r", "y">>,
               <<"o", "v", "e", "r", "v", "i", "e", "w">>,
               <<"a", "p", "p", "e", "n", "d", "i", "x">>,
               <<"r", "e", "f", "e", "r", "e", "n", "c", "e", "s">>,
               <<"b", "i", "b", "l", "i", "o", "g", "r", "a", "p", "h", "y">> >>

\* some pattern of HEADING_KEYWORDS matches at the start of s (re.match,
\* re.IGNORECASE)
HEADING_KEYWORDS(s) ==
    \/ \E k \in DOMAIN KW_NUMBERED :
          /\ HasWordAt(s, 1, KW_NUMBERED[k])
          /\ SpacesEnd(s, Len(KW_NUMBERED[k]) + 1) >= Len(KW_NUMBERED[k]) + 1
          /\ SpacesEnd(s, Len(KW_NUMBERED[k]) + 1) < Len(s)
          /\ IsDigit(s[SpacesEnd(s, Len(KW_NUMBERED[k]) + 1) + 1])
    \/ \E k \in DOMAIN KW_PLAIN : HasWordAt(s, 1, KW_PLAIN[k])

\* formatting_info is a dict: a function from its keys to their values
HasKey(d, k) == k \in DOMAIN d

\* dict.get(k, default)
DictGet(d, k, default) == IF k \in DOMAIN d THEN d[k] ELSE default

\* a dict is falsy when empty
DictTruthy(d) == DOMAIN d # {}

detect_heading_DefaultLevel1(line, formatting_info) ==
    LET line_stripped == Strip(line)
    IN  IF line_stripped = <<>> THEN None
        ELSE IF /\ DictTruthy(formatting_info)
                /\ HasKey(formatting_info, "is_heading")
                /\ formatting_info["is_heading"]
        THEN [type |-> "formatted",
              level |-> DictGet(formatting_info, "heading_level", 1),
              title |-> line_stripped,
              original |-> line_stripped]
        ELSE IF HEADING_MARKER(line_stripped)
        THEN [type |-> "marker",
              level |-> ParseInt(line_stripped,
                                 SpacesEnd(line_stripped, Len(HEADING_WORD) + 1) + 1,
                                 MarkerClose(line_stripped) - 1),
              title |-> Strip(Tail_From(line_stripped, MarkerClose(line_stripped) + 1)),
              original |-> line_stripped]
        ELSE IF NUMBERED_HEADING(line_stripped)
        THEN [type |-> "numbered",
              level |-> CountChar(SubSeq(line_stripped, 1, NumeralEnd(line_stripped)), ".") + 1,
              title |-> Strip(Tail_From(line_stripped, NumeralEnd(line_stripped) + 2)),
              original |-> line_stripped,
              number |-> SubSeq(line_stripped, 1, NumeralEnd(line_stripped))]
        ELSE IF HEADING_KEYWORDS(line_stripped)
        THEN [type |-> "keyword",
              level |-> 1,
              title |-> line_stripped,
              original |-> line_stripped]
        ELSE None

detect_heading_MarkerFirst(line, formatting_info) ==
    LET line_stripped == Strip(line)
    IN  IF line_stripped = <<>> THEN None
        ELSE IF HEADING_MARKER(line_stripped)
        THEN [type |-> "marker",
              level |-> ParseInt(line_stripped,
                                 SpacesEnd(line_stripped, Len(HEADING_WORD) + 1) + 1,
                                 MarkerClose(line_stripped) - 1),
              title |-> Strip(Tail_From(line_stripped, MarkerClose(line_stripped) + 1)),
              original |-> line_stripped]
        ELSE IF /\ DictTruthy(formatting_info)
                /\ HasKey(formatting_info, "is_heading")
                /\ formatting_info["is_heading"]
        THEN [type |-> "formatted",
              level |-> DictGet(formatting_info, "heading_level", 2),
              title |-> line_stripped,
              original |-> line_stripped]
        ELSE IF NUMBERED_HEADING(line_stripped)
        THEN [type |-> "numbered",
              level |-> CountChar(SubSeq(line_stripped, 1, NumeralEnd(line_stripped)), ".") + 1,
              title |-> Strip(Tail_From(line_stripped, NumeralEnd(line_stripped) + 2)),
              original |-> line_stripped,
              number |-> SubSeq(line_stripped, 1, NumeralEnd(line_stripped))]
        ELSE IF HEADING_KEYWORDS(line_stripped)
        THEN [type |-> "keyword",
              level |-> 1,
              title |-> line_stripped,
              original |-> line_stripped]
        ELSE None

\* detect_heading(line, prev_line, next_line, formatting_info); prev_line and
\* next_line are never read by the source
detect_heading(line, formatting_info) ==
    LET line_stripped == Strip(line)
    IN  IF line_stripped = <<>> THEN None
        ELSE IF /\ DictTruthy(formatting_info)
                /\ HasKey(formatting_info, "is_heading")
                /\ formatting_info["is_heading"]
        THEN [type |-> "formatted",
              level |-> DictGet(formatting_info, "heading_level", 2),
              title |-> line_stripped,
              original |-> line_stripped]
        ELSE IF HEADING_MARKER(line_stripped)
        THEN [type |-> "marker",
              level |-> ParseInt(line_stripped,
                                 SpacesEnd(line_stripped, Len(HEADING_WORD) + 1) + 1,
                                 MarkerClose(line_stripped) - 1),
              title |-> Strip(Tail_From(line_stripped, MarkerClose(line_stripped) + 1)),
              original |-> line_stripped]
        ELSE IF NUMBERED_HEADING(line_stripped)
        THEN [type |-> "numbered",
              level |-> CountChar(SubSeq(line_stripped, 1, NumeralEnd(line_stripped)), ".") + 1,
              title |-> Strip(Tail_From(line_stripped, NumeralEnd(line_stripped) + 2)),
              original |-> line_stripped,
              number |-> SubSeq(line_stripped, 1, NumeralEnd(line_stripped))]
        ELSE IF HEADING_KEYWORDS(line_stripped)
        THEN [type |-> "keyword",
              level |-> 1,
              title |-> line_stripped,
              original |-> line_stripped]
        ELSE None

\* ------------------------------------------------------------------------
\* ContentTypeIdentifier
\* ------------------------------------------------------------------------

\* index of the first occurrence of c in s at or after i, 0 when there is none
FirstIndexFrom(s, c, i) ==
    IF \E k \in i..Len(s) : s[k] = c
    THEN CHOOSE k \in i..Len(s) : s[k] = c /\ \A j \in i..(k - 1) : s[j] # c
    ELSE 0

\* \s+w1\s+w2...\s+wn matched at index i (re.IGNORECASE): the index after wn,
\* 0 when it does not match.  Each \s+ takes its whole run, since the word
\* after it starts with a letter.
RECURSIVE AfterWords(_, _, _)
AfterWords(s, i, words) ==
    IF words = <<>> THEN i
    ELSE LET e == SpacesEnd(s, i)
         IN  IF e >= i /\ HasWordAt(s, e + 1, Head(words))
             THEN AfterWords(s, e + 1 + Len(Head(words)), Tail(words))
             ELSE 0

\* \s+(.+)$ matched at index j: a whitespace, then one more character at least
RestAt(s, j) == j >= 1 /\ j + 1 <= Len(s) /\ IsSpace(s[j])

\* maximum of a non-empty set of integers
Max(S) == CHOOSE x \in S : \A y \in S : y <= x

DEF_TERM_MIN == 1
DEF_TERM_MAX == 50

\* DEFINITION_PATTERNS[0] = ^([A-Z][^:]{1,50}):\s+(.+)$ : the index of the colon
\* that ends group 1, 0 when the pattern does not match
Def0Colon(s) ==
    LET c == FirstIndexFrom(s, ":", 1)
    IN  IF /\ Len(s) >= 1
           /\ IsUpper(s[1])
           /\ c >= 2 + DEF_TERM_MIN
           /\ c <= 2 + DEF_TERM_MAX
           /\ RestAt(s, c + 1)
        THEN c
        ELSE 0

WORDS_IS_DEFINED_AS == << <<"i", "s">>, <<"d", "e", "f", "i", "n", "e", "d">>, <<"a", "s">> >>

WORD_REFER == <<"r", "e", "f", "e", "r">>

WORD_TO == <<"t", "o">>

\* the ends e of group 1 = [A-Z][^.]{1,50} (re.IGNORECASE) of s
TermEnds(s) ==
    {e \in (1 + DEF_TERM_MIN)..(1 + DEF_TERM_MAX) :
        /\ e <= Len(s)
        /\ IsLetter(s[1])
        /\ \A k \in 2..e : s[k] # "."}

\* DEFINITION_PATTERNS[1] = ^([A-Z][^.]{1,50})\s+is\s+defined\s+as\s+(.+)$ :
\* the ends of group 1 for which the rest of the pattern matches
Def1Ends(s) ==
    {e \in TermEnds(s) : RestAt(s, AfterWords(s, e + 1, WORDS_IS_DEFINED_AS))}

\* \s+refers?\s+to matched at index i: the index after "to", 0 when no match
AfterRefersTo(s, i) ==
    LET r == AfterWords(s, i, <<WORD_REFER>>)
    IN  IF r = 0 THEN 0
        ELSE IF r <= Len(s) /\ Lower(s[r]) = "s"
             THEN AfterWords(s, r + 1, <<WORD_TO>>)
             ELSE AfterWords(s, r, <<WORD_TO>>)

\* DEFINITION_PATTERNS[2] = ^([A-Z][^.]{1,50})\s+refers?\s+to\s+(.+)$
Def2Ends(s) ==
    {e \in TermEnds(s) : RestAt(s, AfterRefersTo(s, e + 1))}

WORD_DEFINITION == <<"d", "e", "f", "i", "n", "i", "t", "i", "o", "n">>

WORD_OF == <<"o", "f">>

\* DEFINITION_PATTERNS[3] = ^Definition\s+of\s+([^:]+):\s*(.*)$ : the index q
\* after "of" (where \s+ starts), 0 when the pattern does not match
Def3Of(s) ==
    LET q == IF HasWordAt(s, 1, WORD_DEFINITION)
             THEN AfterWords(s, Len(WORD_DEFINITION) + 1, <<WORD_OF>>)
             ELSE 0
    IN  IF /\ q # 0
           /\ q <= Len(s)
           /\ IsSpace(s[q])
           /\ FirstIndexFrom(s, ":", q) >= q + 2
        THEN q
        ELSE 0

\* identify_definition(line): {'term', 'definition'} of the first pattern that
\* matches, else None
identify_definition(line) ==
    LET s == Strip(line)
    IN  IF Def0Colon(s) # 0
        THEN [term |-> Strip(SubSeq(s, 1, Def0Colon(s) - 1)),
              definition |-> Strip(Tail_From(s, Def0Colon(s) + 1))]
        ELSE IF Def1Ends(s) # {}
        THEN [term |-> Strip(SubSeq(s, 1, Max(Def1Ends(s)))),
              definition |-> Strip(Tail_From(s,
                  AfterWords(s, Max(Def1Ends(s)) + 1, WORDS_IS_DEFINED_AS)))]
        ELSE IF Def2Ends(s) # {}
        THEN [term |-> Strip(SubSeq(s, 1, Max(Def2Ends(s)))),
              definition |-> Strip(Tail_From(s, AfterRefersTo(s, Max(Def2Ends(s)) + 1)))]
        ELSE IF Def3Of(s) # 0
        THEN [term |-> Strip(SubSeq(s, Def3Of(s), FirstIndexFrom(s, ":", Def3Of(s)) - 1)),
              definition |-> Strip(Tail_From(s, FirstIndexFrom(s, ":", Def3Of(s)) + 1))]
        ELSE None

BULLET_GLYPHS == {"U+2022", "U+00B7", "U+25AA", "U+25B8", "U+25B9", "U+25BA", "-", "*"}

\* BULLET_PATTERN = ^[\s]*[<glyphs>]\s+(.+)$ matched on the raw line
BULLET_PATTERN(line) ==
    LET g == FirstNonSpace(line)
    IN  /\ g <= Len(line)
        /\ line[g] \in BULLET_GLYPHS
        /\ RestAt(line, g + 1)

\* NUMBERED_LIST_PATTERN = ^[\s]*\d+[\).]\s+(.+)$ matched on the raw line
NUMBERED_LIST_PATTERN(line) ==
    LET g == FirstNonSpace(line)
        d == DigitsEnd(line, g)
    IN  /\ d >= g
        /\ d + 1 <= Len(line)
        /\ line[d + 1] \in {")", "."}
        /\ RestAt(line, d + 2)

\* the counting loop of identify_content_type: a line counts as a bullet, else
\* (elif) as a numbered-list line
bullet_count(lines) == Cardinality({i \in DOMAIN lines : BULLET_PATTERN(lines[i])})

list_count(lines) ==
    Cardinality({i \in DOMAIN lines :
        ~BULLET_PATTERN(lines[i]) /\ NUMBERED_LIST_PATTERN(lines[i])})

identify_content_type_AtLeastHalf(lines) ==
    IF lines = <<>> THEN "paragraph"
    ELSE IF identify_definition(Strip(lines[1])) # None THEN "definition"
    ELSE IF 2 * bullet_count(lines) >= Len(lines) THEN "bullet_block"
    ELSE IF 2 * list_count(lines) >= Len(lines) THEN "list"
    ELSE "paragraph"

\* identify_content_type(lines); count > len(lines) * 0.5 is 2 * count > len(lines)
identify_content_type(lines) ==
    IF lines = <<>> THEN "paragraph"
    ELSE IF identify_definition(Strip(lines[1])) # None THEN "definition"
    ELSE IF 2 * bullet_count(lines) > Len(lines) THEN "bullet_block"
    ELSE IF 2 * list_count(lines) > Len(lines) THEN "list"
    ELSE "paragraph"

\* ------------------------------------------------------------------------
\* StructuredDocumentBuilder: the data model
\* ------------------------------------------------------------------------
\* Chapter and Topic objects live in the heap `nodes`; an object reference is
\* its index in nodes.  sections / subsections hold references.

\* Chapter(title=..., level=1, line_start=...): sections and line_end take the
\* dataclass defaults [] and 0
NewChapter(title, line_start) ==
    [kind |-> "Chapter", title |-> title, level |-> 1, sections |-> <<>>,
     line_start |-> line_start, line_end |-> 0]

\* Topic(title, level, content, content_type, line_start, line_end)
NewTopic(title, level, content, content_type, line_start, line_end) ==
    [kind |-> "Topic", title |-> title, level |-> level, content |-> content,
     content_type |-> content_type, line_start |-> line_start,
     line_end |-> line_end, subsections |-> <<>>]

\* the child list of a node: sections of a Chapter, subsections of a Topic
Children(node) == IF node.kind = "Chapter" THEN node.sections ELSE node.subsections

\* parent_node.sections.append(child) / parent_node.subsections.append(child)
AttachChild_Prepend(nodes_, parent, child) ==
    IF nodes_[parent].kind = "Chapter"
    THEN [nodes_ EXCEPT ![parent].sections = <<child>> \o @]
    ELSE [nodes_ EXCEPT ![parent].subsections = <<child>> \o @]

AttachChild(nodes_, parent, child) ==
    IF nodes_[parent].kind = "Chapter"
    THEN [nodes_ EXCEPT ![parent].sections = Append(@, child)]
    ELSE [nodes_ EXCEPT ![parent].subsections = Append(@, child)]

\* '\n'.join(content_lines)
RECURSIVE JoinLines_Space(_)
JoinLines_Space(ls) ==
    IF ls = <<>> THEN <<>>
    ELSE IF Len(ls) = 1 THEN ls[1]
    ELSE ls[1] \o <<" ">> \o JoinLines_Space(Tail(ls))

RECURSIVE JoinLines(_)
JoinLines(ls) ==
    IF ls = <<>> THEN <<>>
    ELSE IF Len(ls) = 1 THEN ls[1]
    ELSE ls[1] \o <<"\n">> \o JoinLines(Tail(ls))

\* text.split('\n'): never empty, '' gives ['']
RECURSIVE SplitLines(_)
SplitLines(text) ==
    LET k == FirstIndexFrom(text, "\n", 1)
    IN  IF k = 0 THEN <<text>>
        ELSE <<SubSeq(text, 1, k - 1)>> \o SplitLines(Tail_From(text, k + 1))

TITLE_MAX_LINE == 100
TITLE_CUT == 50

\* the lengths of first lines around the two limits of the title
TitleLengths ==
    {TITLE_CUT - 1, TITLE_CUT, TITLE_CUT + 1,
     TITLE_MAX_LINE - 1, TITLE_MAX_LINE, TITLE_MAX_LINE + 1}

content_title_NoEllipsis(content_type, content_lines) ==
    IF content_type = "definition"
    THEN IF identify_definition(content_lines[1]) # None
         THEN identify_definition(content_lines[1]).term
         ELSE <<>>
    ELSE IF Len(content_lines[1]) < TITLE_MAX_LINE
    THEN SubSeq(content_lines[1], 1,
                IF Len(content_lines[1]) < TITLE_CUT THEN Len(content_lines[1]) ELSE TITLE_CUT)
    ELSE <<>>

\* the title of a content block (_add_content_to_hierarchy, "Extract title")
content_title(content_type, content_lines) ==
    IF content_type = "definition"
    THEN IF identify_definition(content_lines[1]) # None
         THEN identify_definition(content_lines[1]).term
         ELSE <<>>
    ELSE IF Len(content_lines[1]) < TITLE_MAX_LINE
    THEN SubSeq(content_lines[1], 1,
                IF Len(content_lines[1]) < TITLE_CUT THEN Len(content_lines[1]) ELSE TITLE_CUT)
         \o (IF Len(content_lines[1]) > TITLE_CUT THEN <<".", ".", ".">> ELSE <<>>)
    ELSE <<>>

\* the level of a content Topic: hierarchy_stack[-1][0] + 1
content_level_SameAsParent(hierarchy_stack_) == hierarchy_stack_[Len(hierarchy_stack_)][1]

content_level(hierarchy_stack_) == hierarchy_stack_[Len(hierarchy_stack_)][1] + 1

add_content_to_hierarchy_Bottom(nodes_, hierarchy_stack_, content_lines, line_start, line_end) ==
    IF content_lines = <<>> \/ hierarchy_stack_ = <<>> THEN nodes_
    ELSE LET content_type == identify_content_type(content_lines)
             content_topic == NewTopic(content_title(content_type, content_lines),
                                       content_level(hierarchy_stack_),
                                       JoinLines(content_lines),
                                       content_type, line_start, line_end)
             parent_node == hierarchy_stack_[1][2]
         IN  AttachChild(Append(nodes_, content_topic), parent_node, Len(nodes_) + 1)

\* _add_content_to_hierarchy(hierarchy_stack, content_lines, line_start, line_end):
\* the heap after the call
add_content_to_hierarchy(nodes_, hierarchy_stack_, content_lines, line_start, line_end) ==
    IF content_lines = <<>> \/ hierarchy_stack_ = <<>> THEN nodes_
    ELSE LET content_type == identify_content_type(content_lines)
             content_topic == NewTopic(content_title(content_type, content_lines),
                                       content_level(hierarchy_stack_),
                                       JoinLines(content_lines),
                                       content_type, line_start, line_end)
             parent_node == hierarchy_stack_[Len(hierarchy_stack_)][2]
         IN  AttachChild(Append(nodes_, content_topic), parent_node, Len(nodes_) + 1)

\* while hierarchy_stack and hierarchy_stack[-1][0] >= level: hierarchy_stack.pop()
RECURSIVE PopStack_Loose(_, _)
PopStack_Loose(hierarchy_stack_, level) ==
    IF hierarchy_stack_ # <<>> /\ hierarchy_stack_[Len(hierarchy_stack_)][1] >= level - 1
    THEN PopStack_Loose(SubSeq(hierarchy_stack_, 1, Len(hierarchy_stack_) - 1), level)
    ELSE hierarchy_stack_

RECURSIVE PopStack_Strict(_, _)
PopStack_Strict(hierarchy_stack_, level) ==
    IF hierarchy_stack_ # <<>> /\ hierarchy_stack_[Len(hierarchy_stack_)][1] > level
    THEN PopStack_Strict(SubSeq(hierarchy_stack_, 1, Len(hierarchy_stack_) - 1), level)
    ELSE hierarchy_stack_

RECURSIVE PopStack(_, _)
PopStack(hierarchy_stack_, level) ==
    IF hierarchy_stack_ # <<>> /\ hierarchy_stack_[Len(hierarchy_stack_)][1] >= level
    THEN PopStack(SubSeq(hierarchy_stack_, 1, Len(hierarchy_stack_) - 1), level)
    ELSE hierarchy_stack_

\* _get_last_line(topic)
get_last_line_Shallow(nodes_, topic) == nodes_[topic].line_end

RECURSIVE get_last_line(_, _)
get_last_line(nodes_, topic) ==
    IF nodes_[topic].subsections # <<>>
    THEN get_last_line(nodes_, nodes_[topic].subsections[Len(nodes_[topic].subsections)])
    ELSE nodes_[topic].line_end

\* ------------------------------------------------------------------------
\* Inputs
\* ------------------------------------------------------------------------

\* the lines the generated inputs are made of: a blank line, plain text, a
\* bullet, numbered headings of levels 1, 2 and 3, a marker heading of level 0
\* and a definition
L_BLANK == <<>>

L_TEXT == <<"x">>

L_BULLET == <<"-", " ", "a">>

L_H1 == <<"1", " ", "A">>

L_H2 == <<"1", ".", "1", " ", "B">>

L_H3 == <<"1", ".", "1", ".", "1", " ", "C">>

L_H0 == <<"[", "H", "E", "A", "D", "I", "N", "G", " ", "0", "]", " ", "Z">>

L_DEF == <<"T", ":", " ", "d">>

LinePool == {L_BLANK, L_TEXT, L_BULLET, L_H1, L_H2, L_H3, L_H0, L_DEF}

\* the inputs of the scenarios of the specification
SCENARIO_A ==
    << <<"1", ".", " ", "I", "n", "t", "r", "o">>,
       <<"H", "e", "l", "l", "o", " ", "w", "o", "r", "l", "d">>,
       <<>>,
       <<>>,
       <<"2", ".", " ", "B", "o", "d", "y">>,
       <<"M", "o", "r", "e", " ", "t", "e", "x", "t">> >>

SCENARIO_B ==
    << <<"[", "H", "E", "A", "D", "I", "N", "G", " ", "1", "]", " ", "C", "h", "a", "p", "t", "e", "r", " ", "A">>,
       <<"[", "H", "E", "A", "D", "I", "N", "G", " ", "2", "]", " ", "S", "e", "c", "t", "i", "o", "n", " ", "A", ".", "1">>,
       <<"-", " ", "i", "t", "e", "m", "1">>,
       <<"-", " ", "i", "t", "e", "m", "2">> >>

SCENARIO_E ==
    << <<"1", ".", " ", "A">>,
       <<"x">>,
       <<"1", ".", "1", ".", "1", " ", "B">>,
       <<"y">>,
       <<"1", ".", "1", " ", "C">>,
       <<"z">> >>

Scenarios == {SCENARIO_A, SCENARIO_B, SCENARIO_E}

\* texts with runs of one, two and three blank lines under a heading
SEGMENTS_1 == <<L_H1, L_TEXT, L_BLANK, L_TEXT, L_BLANK, L_BLANK, L_TEXT>>

SEGMENTS_2 == <<L_H1, L_TEXT, L_BLANK, L_BLANK, L_BLANK, L_TEXT, L_BLANK>>

SegmentInputs == {SEGMENTS_1, SEGMENTS_2}

\* lines carrying the heading signals: a marker of level 2 and the two kinds of
\* keyword heading
L_MARK2 == <<"[", "H", "E", "A", "D", "I", "N", "G", " ", "2", "]", " ", "S">>

L_KW == <<"S", "u", "m", "m", "a", "r", "y">>

L_KWNUM == <<"c", "h", "a", "p", "t", "e", "r", " ", "1">>

DetectPool == {L_BLANK, L_TEXT, L_H1, L_H2, L_MARK2, L_KW, L_KWNUM}

\* the lines of the content blocks: a numbered-list line besides the bullet,
\* the text and the definition
L_LIST == <<"1", ".", " ", "a">>

BlockPool == {L_BLANK, L_TEXT, L_BULLET, L_LIST, L_DEF}

\* the block of Scenario C
L_TERM == <<"T", "e", "r", "m", ":", " ", "t", "h", "i", "s", " ", "i", "s", " ", "t", "h", "e", " ", "d", "e", "f", "i", "n", "i", "t", "i", "o", "n">>

\* a line of n characters
LongLine(n) == [i \in 1..n |-> "x"]

MaxLines == 4
MaxFmtLines == 2
MaxDetectLines == 3
MaxBlockLines == 4

\* raw_text of the extraction result: the lines separated by newlines
RECURSIVE RawText(_)
RawText(in) ==
    IF in = <<>> THEN <<>>
    ELSE IF Len(in) = 1 THEN in[1]
    ELSE in[1] \o <<"\n">> \o RawText(Tail(in))

\* every sequence of exactly k lines of the pool
SeqsOf(k) == [1..k -> LinePool]

DetectSeqsOf(k) == [1..k -> DetectPool]

\* a level-1 heading followed by k lines of the block pool
BlockSeqsOf(k) == {<<L_H1>> \o b : b \in [1..k -> BlockPool]}

\* formatting_notes: the empty dict the extractors of documentLoader.py produce,
\* and maps with is_heading / heading_level
NoFormatting == <<>>

FormattingPool ==
    {[is_heading |-> FALSE], [is_heading |-> TRUE], [heading_level |-> 1]}
    \cup {[is_heading |-> TRUE, heading_level |-> n] : n \in 0..3}


\* ------------------------------------------------------------------------
\* StructuredDocumentBuilder.build, one loop iteration per step
\* ------------------------------------------------------------------------

VARIABLES
    lines,                  \* text.split('\n')
    formatting_notes,       \* extraction_result.formatting_notes
    pc,                     \* "loop", "flushed", "done", "serialized"
    line_num,               \* the index of the next line (0-based, as enumerate)
    nodes,                  \* the heap of Chapter and Topic objects
    chapters,               \* references to the Chapters, in order
    current_content_block,  \* the buffered lines
    current_block_start,
    blank_line_count,
    hierarchy_stack,        \* <<level, reference>> pairs
    block_src,              \* history: the indices of the buffered lines
    provenance,             \* history: per node, the indices of its source lines
    output                  \* the value to_dict returns

vars == <<lines, formatting_notes, pc, line_num, nodes, chapters,
          current_content_block, current_block_start, blank_line_count,
          hierarchy_stack, block_src, provenance, output>>

\* the local variables of build as one value
Locals ==
    [nodes |-> nodes, chapters |-> chapters,
     current_content_block |-> current_content_block,
     current_block_start |-> current_block_start,
     blank_line_count |-> blank_line_count,
     hierarchy_stack |-> hierarchy_stack,
     block_src |-> block_src, provenance |-> provenance]

SetLocals(st) ==
    /\ nodes' = st.nodes
    /\ chapters' = st.chapters
    /\ current_content_block' = st.current_content_block
    /\ current_block_start' = st.current_block_start
    /\ blank_line_count' = st.blank_line_count
    /\ hierarchy_stack' = st.hierarchy_stack
    /\ block_src' = st.block_src
    /\ provenance' = st.provenance

\* if current_content_block and hierarchy_stack
ShouldFlush(st) == st.current_content_block # <<>> /\ st.hierarchy_stack # <<>>

\* self._add_content_to_hierarchy(hierarchy_stack, current_content_block,
\*                                current_block_start, line_end)
flush(st, line_end) ==
    LET after == add_content_to_hierarchy(st.nodes, st.hierarchy_stack,
                     st.current_content_block, st.current_block_start, line_end)
    IN  [st EXCEPT !.nodes = after,
                   !.provenance = IF Len(after) > Len(st.nodes)
                                  THEN Append(@, st.block_src) ELSE @]

\* current_content_block = []
clear_block(st) == [st EXCEPT !.current_content_block = <<>>, !.block_src = <<>>]

blank_step_NoClear(st, i) ==
    LET counted == [st EXCEPT !.blank_line_count = @ + 1]
    IN  IF counted.blank_line_count >= 2 /\ ShouldFlush(counted)
        THEN flush(counted, i - counted.blank_line_count)
        ELSE counted

blank_step_SingleBlank(st, i) ==
    LET counted == [st EXCEPT !.blank_line_count = @ + 1]
    IN  IF counted.blank_line_count >= 1 /\ ShouldFlush(counted)
        THEN clear_block(flush(counted, i - counted.blank_line_count))
        ELSE counted

\* the body of the loop for a blank line (lines 230-241)
blank_step(st, i) ==
    LET counted == [st EXCEPT !.blank_line_count = @ + 1]
    IN  IF counted.blank_line_count >= 2 /\ ShouldFlush(counted)
        THEN clear_block(flush(counted, i - counted.blank_line_count))
        ELSE counted

\* "Save accumulated content first" (lines 251-259)
flush_before_heading(st, i) ==
    IF ShouldFlush(st) THEN clear_block(flush(st, i - 1)) ELSE st

chapter_step_NoPush(st, i, heading_info) ==
    [st EXCEPT !.nodes = Append(@, NewChapter(heading_info.title, i)),
               !.provenance = Append(@, <<i>>),
               !.chapters = Append(@, Len(st.nodes) + 1)]

chapter_step_Push(st, i, heading_info) ==
    [st EXCEPT !.nodes = Append(@, NewChapter(heading_info.title, i)),
               !.provenance = Append(@, <<i>>),
               !.chapters = Append(@, Len(st.nodes) + 1),
               !.hierarchy_stack = Append(@, <<1, Len(st.nodes) + 1>>)]

\* the level == 1 branch (lines 264-273)
chapter_step(st, i, heading_info) ==
    [st EXCEPT !.nodes = Append(@, NewChapter(heading_info.title, i)),
               !.provenance = Append(@, <<i>>),
               !.chapters = Append(@, Len(st.nodes) + 1),
               !.hierarchy_stack = << <<1, Len(st.nodes) + 1>> >>]

section_step_AttachToBottom(st, i, heading_info) ==
    LET level == heading_info.level
        popped == PopStack(st.hierarchy_stack, level)
        new_section == NewTopic(heading_info.title, level, <<>>, "heading", i, i)
        ref == Len(st.nodes) + 1
        added == Append(st.nodes, new_section)
    IN  [st EXCEPT !.nodes = IF popped # <<>>
                             THEN AttachChild(added, popped[1][2], ref)
                             ELSE added,
                   !.provenance = Append(@, <<i>>),
                   !.hierarchy_stack = Append(popped, <<level, ref>>)]

section_step_DropOrphan(st, i, heading_info) ==
    LET level == heading_info.level
        popped == PopStack(st.hierarchy_stack, level)
        new_section == NewTopic(heading_info.title, level, <<>>, "heading", i, i)
        ref == Len(st.nodes) + 1
        added == Append(st.nodes, new_section)
    IN  [st EXCEPT !.nodes = IF popped # <<>>
                             THEN AttachChild(added, popped[Len(popped)][2], ref)
                             ELSE added,
                   !.provenance = Append(@, <<i>>),
                   !.hierarchy_stack = IF popped # <<>>
                                       THEN Append(popped, <<level, ref>>)
                                       ELSE popped]

\* the else branch (lines 274-299)
section_step(st, i, heading_info) ==
    LET level == heading_info.level
        popped == PopStack(st.hierarchy_stack, level)
        new_section == NewTopic(heading_info.title, level, <<>>, "heading", i, i)
        ref == Len(st.nodes) + 1
        added == Append(st.nodes, new_section)
    IN  [st EXCEPT !.nodes = IF popped # <<>>
                             THEN AttachChild(added, popped[Len(popped)][2], ref)
                             ELSE added,
                   !.provenance = Append(@, <<i>>),
                   !.hierarchy_stack = Append(popped, <<level, ref>>)]

heading_step_ZeroIsChapter(st, i, heading_info) ==
    LET saved == flush_before_heading([st EXCEPT !.blank_line_count = 0], i)
        placed == IF heading_info.level <= 1
                  THEN chapter_step(saved, i, heading_info)
                  ELSE section_step(saved, i, heading_info)
    IN  [placed EXCEPT !.current_block_start = i + 1]

\* the body of the loop for a heading line (lines 243-301)
heading_step(st, i, heading_info) ==
    LET saved == flush_before_heading([st EXCEPT !.blank_line_count = 0], i)
        placed == IF heading_info.level = 1
                  THEN chapter_step(saved, i, heading_info)
                  ELSE section_step(saved, i, heading_info)
    IN  [placed EXCEPT !.current_block_start = i + 1]

\* the body of the loop for any other line (lines 243, 302-304)
content_step_ImplicitRoot(st, i, line) ==
    LET rooted == IF st.hierarchy_stack = <<>>
                  THEN [st EXCEPT !.nodes = Append(@, NewChapter(<<>>, i)),
                                  !.provenance = Append(@, <<i>>),
                                  !.chapters = Append(@, Len(st.nodes) + 1),
                                  !.hierarchy_stack = << <<1, Len(st.nodes) + 1>> >>]
                  ELSE st
    IN  [rooted EXCEPT !.blank_line_count = 0,
                       !.current_content_block = Append(@, line),
                       !.block_src = Append(@, i)]

content_step(st, i, line) ==
    [st EXCEPT !.blank_line_count = 0,
               !.current_content_block = Append(@, line),
               !.block_src = Append(@, i)]

\* "Don't forget the last content block" (lines 306-313)
final_flush(st, n) == IF ShouldFlush(st) THEN flush(st, n - 1) ELSE st

\* "Set end lines for chapters" (lines 315-320)
set_end_lines_FirstSection(nodes_, chapters_) ==
    [r \in DOMAIN nodes_ |->
        IF \E k \in DOMAIN chapters_ : chapters_[k] = r
        THEN IF nodes_[r].sections # <<>>
             THEN [nodes_[r] EXCEPT !.line_end =
                      get_last_line(nodes_, nodes_[r].sections[1])]
             ELSE [nodes_[r] EXCEPT !.line_end = nodes_[r].line_start]
        ELSE nodes_[r]]

set_end_lines(nodes_, chapters_) ==
    [r \in DOMAIN nodes_ |->
        IF \E k \in DOMAIN chapters_ : chapters_[k] = r
        THEN IF nodes_[r].sections # <<>>
             THEN [nodes_[r] EXCEPT !.line_end =
                      get_last_line(nodes_, nodes_[r].sections[Len(nodes_[r].sections)])]
             ELSE [nodes_[r] EXCEPT !.line_end = nodes_[r].line_start]
        ELSE nodes_[r]]

Init ==
    /\ \/ \E in \in Scenarios :
             lines = SplitLines(RawText(in)) /\ formatting_notes = NoFormatting
       \/ \E k \in 0..MaxLines : \E in \in SeqsOf(k) :
             lines = SplitLines(RawText(in)) /\ formatting_notes = NoFormatting
       \/ \E k \in 0..MaxFmtLines : \E in \in SeqsOf(k) : \E fmt \in FormattingPool :
             lines = SplitLines(RawText(in)) /\ formatting_notes = fmt
       \/ \E k \in 0..MaxDetectLines : \E in \in DetectSeqsOf(k) :
             lines = SplitLines(RawText(in)) /\ formatting_notes = NoFormatting
       \/ \E k \in 0..MaxFmtLines : \E in \in DetectSeqsOf(k) : \E fmt \in FormattingPool :
             lines = SplitLines(RawText(in)) /\ formatting_notes = fmt
       \/ \E k \in 0..MaxBlockLines : \E in \in BlockSeqsOf(k) :
             lines = SplitLines(RawText(in)) /\ formatting_notes = NoFormatting
       \/ \E n \in TitleLengths :
             lines = <<L_H1, LongLine(n)>> /\ formatting_notes = NoFormatting
       \/ lines = <<L_H1, L_TERM>> /\ formatting_notes = NoFormatting
       \/ \E in \in SegmentInputs :
             lines = SplitLines(RawText(in)) /\ formatting_notes = NoFormatting
    /\ pc = "loop"
    /\ line_num = 0
    /\ nodes = <<>>
    /\ chapters = <<>>
    /\ current_content_block = <<>>
    /\ current_block_start = 0
    /\ blank_line_count = 0
    /\ hierarchy_stack = <<>>
    /\ block_src = <<>>
    /\ provenance = <<>>
    /\ output = <<>>

InLoop_SkipLast == pc = "loop" /\ line_num < Len(lines) - 1

\* for line_num, line in enumerate(lines)
InLoop == pc = "loop" /\ line_num < Len(lines)

CurrentLine == lines[line_num + 1]

BlankLine ==
    /\ InLoop
    /\ Strip(CurrentLine) = <<>>
    /\ SetLocals(blank_step(Locals, line_num))
    /\ line_num' = line_num + 1
    /\ UNCHANGED <<lines, formatting_notes, pc, output>>

HeadingLine ==
    /\ InLoop
    /\ Strip(CurrentLine) # <<>>
    /\ detect_heading(CurrentLine, formatting_notes) # None
    /\ SetLocals(heading_step(Locals, line_num,
                              detect_heading(CurrentLine, formatting_notes)))
    /\ line_num' = line_num + 1
    /\ UNCHANGED <<lines, formatting_notes, pc, output>>

ContentLine ==
    /\ InLoop
    /\ Strip(CurrentLine) # <<>>
    /\ detect_heading(CurrentLine, formatting_notes) = None
    /\ SetLocals(content_step(Locals, line_num, CurrentLine))
    /\ line_num' = line_num + 1
    /\ UNCHANGED <<lines, formatting_notes, pc, output>>

FinalFlush ==
    /\ pc = "loop"
    /\ line_num = Len(lines)
    /\ SetLocals(final_flush(Locals, Len(lines)))
    /\ pc' = "flushed"
    /\ UNCHANGED <<lines, formatting_notes, line_num, output>>

\* the post-pass, and return StructuredDocument(chapters, metadata)
SetEndLines ==
    /\ pc = "flushed"
    /\ nodes' = set_end_lines(nodes, chapters)
    /\ pc' = "done"
    /\ UNCHANGED <<lines, formatting_notes, line_num, chapters,
                   current_content_block, current_block_start, blank_line_count,
                   hierarchy_stack, block_src, provenance, output>>

\* ------------------------------------------------------------------------
\* StructuredDocumentBuilder.to_dict
\* ------------------------------------------------------------------------

\* topic_to_dict(topic): the key 'subsections' only when topic.subsections is
\* not empty
RECURSIVE topic_to_dict_AlwaysSubsections(_, _)
topic_to_dict_AlwaysSubsections(nodes_, topic) ==
    [title |-> nodes_[topic].title, level |-> nodes_[topic].level,
     content |-> nodes_[topic].content, content_type |-> nodes_[topic].content_type,
     line_start |-> nodes_[topic].line_start, line_end |-> nodes_[topic].line_end,
     subsections |-> [j \in DOMAIN nodes_[topic].subsections |->
                         topic_to_dict_AlwaysSubsections(nodes_, nodes_[topic].subsections[j])]]

topic_to_dict_Shallow(nodes_, topic) ==
    [title |-> nodes_[topic].title, level |-> nodes_[topic].level,
     content |-> nodes_[topic].content, content_type |-> nodes_[topic].content_type,
     line_start |-> nodes_[topic].line_start, line_end |-> nodes_[topic].line_end]

RECURSIVE topic_to_dict(_, _)
topic_to_dict(nodes_, topic) ==
    LET t == nodes_[topic]
        result == [title |-> t.title, level |-> t.level, content |-> t.content,
                   content_type |-> t.content_type,
                   line_start |-> t.line_start, line_end |-> t.line_end]
    IN  IF t.subsections # <<>>
        THEN [k \in DOMAIN result \cup {"subsections"} |->
                 IF k = "subsections"
                 THEN [j \in DOMAIN t.subsections |->
                          topic_to_dict(nodes_, t.subsections[j])]
                 ELSE result[k]]
        ELSE result

\* the dict of one Chapter
chapter_to_dict(nodes_, chapter) ==
    [title |-> nodes_[chapter].title,
     level |-> nodes_[chapter].level,
     sections |-> [j \in DOMAIN nodes_[chapter].sections |->
                      topic_to_dict(nodes_, nodes_[chapter].sections[j])],
     line_start |-> nodes_[chapter].line_start,
     line_end |-> nodes_[chapter].line_end]

\* to_dict(structured_doc); of the metadata only total_chapters is computed by
\* build, the other entries are copied from the extraction result
to_dict(nodes_, chapters_) ==
    [chapters |-> [k \in DOMAIN chapters_ |-> chapter_to_dict(nodes_, chapters_[k])],
     metadata |-> [total_chapters |-> Len(chapters_)]]

ToDict ==
    /\ pc = "done"
    /\ output' = to_dict(nodes, chapters)
    /\ pc' = "serialized"
    /\ UNCHANGED <<lines, formatting_notes, line_num, nodes, chapters,
                   current_content_block, current_block_start, blank_line_count,
                   hierarchy_stack, block_src, provenance>>

Next ==
    \/ BlankLine
    \/ HeadingLine
    \/ ContentLine
    \/ FinalFlush
    \/ SetEndLines
    \/ ToDict

Spec == Init /\ [][Next]_vars

\* the control flow of build followed by to_dict: the for loop takes the next
\* line, the loop ends after the last line, then the final flush, the
\* post-pass and return, and the serialization
Advance ==
    \/ InLoop /\ pc' = pc /\ line_num' = line_num + 1
    \/ pc = "loop" /\ line_num = Len(lines) /\ pc' = "flushed" /\ line_num' = line_num
    \/ pc = "flushed" /\ pc' = "done" /\ line_num' = line_num
    \/ pc = "done" /\ pc' = "serialized" /\ line_num' = line_num

\* build and to_dict are straight-line sequential code: control that can
\* advance does advance
FairSpec == Spec /\ WF_<<pc, line_num>>(Advance)

\* ------------------------------------------------------------------------
\* The returned document
\* ------------------------------------------------------------------------

\* build has returned
Done == pc \in {"done", "serialized"}

\* concatenation of a sequence of sequences
RECURSIVE Flatten(_)
Flatten(ss) == IF ss = <<>> THEN <<>> ELSE Head(ss) \o Flatten(Tail(ss))

\* the references of a node and of its descendants, in pre-order
RECURSIVE PreOrder(_, _)
PreOrder(nodes_, r) ==
    <<r>> \o Flatten([j \in DOMAIN Children(nodes_[r]) |->
                         PreOrder(nodes_, Children(nodes_[r])[j])])

\* the nodes reachable from the chapters of the document
ReachableSeq == Flatten([k \in DOMAIN chapters |-> PreOrder(nodes, chapters[k])])

Reachable == Range(ReachableSeq)

ReachableTopics == {r \in Reachable : nodes[r].kind = "Topic"}

\* the line sequence had no heading at all
NoHeadingLine ==
    \A i \in DOMAIN lines : detect_heading(lines[i], formatting_notes) = None

\* the titles and contents the scenarios name
T_Intro == <<"I", "n", "t", "r", "o">>

T_Body == <<"B", "o", "d", "y">>

T_HelloWorld == <<"H", "e", "l", "l", "o", " ", "w", "o", "r", "l", "d">>

T_MoreText == <<"M", "o", "r", "e", " ", "t", "e", "x", "t">>

T_ChapterA == <<"C", "h", "a", "p", "t", "e", "r", " ", "A">>

T_SectionA1 == <<"S", "e", "c", "t", "i", "o", "n", " ", "A", ".", "1">>

T_Items == <<"i", "t", "e", "m", "1", "\n", "i", "t", "e", "m", "2">>

T_RawItems == <<"-", " ", "i", "t", "e", "m", "1", "\n", "-", " ", "i", "t", "e", "m", "2">>

\* the (title, level, content_type, line_start, line_end) tuple of an object or
\* of a map; a Chapter has no content_type
FieldOr(d, k) == IF k \in DOMAIN d THEN d[k] ELSE "absent"

TupleOf(d) ==
    <<d.title, d.level, FieldOr(d, "content_type"), d.line_start, d.line_end>>

\* pre-order walk of the StructuredDocument in memory
WalkDoc == [j \in DOMAIN ReachableSeq |-> TupleOf(nodes[ReachableSeq[j]])]

\* pre-order walk of a serialized map: sections of a chapter map, subsections
\* of a topic map when the key is present
RECURSIVE WalkMap(_)
WalkMap(d) ==
    <<TupleOf(d)>>
    \o (IF "sections" \in DOMAIN d
        THEN Flatten([j \in DOMAIN d.sections |-> WalkMap(d.sections[j])])
        ELSE <<>>)
    \o (IF "subsections" \in DOMAIN d
        THEN Flatten([j \in DOMAIN d.subsections |-> WalkMap(d.subsections[j])])
        ELSE <<>>)

WalkOutput == Flatten([k \in DOMAIN output.chapters |-> WalkMap(output.chapters[k])])

\* ------------------------------------------------------------------------
\* Claims
\* ------------------------------------------------------------------------

\* C1: every Chapter and Topic reachable from the chapters of the returned
\* document has line_start <= line_end.
C1_SpanOrdered ==
    Done => \A r \in Reachable : nodes[r].line_start <= nodes[r].line_end

\* C2: lines before the first level-1 heading are dropped: every reachable
\* node is made of lines at or after the first chapter's heading, and every
\* chapter comes from a level-1 heading line.
C2_PreambleDropped ==
    Done =>
        /\ \A r \in Reachable : \A k \in Range(provenance[r]) :
              k >= nodes[chapters[1]].line_start
        /\ \A c \in Range(chapters) :
              /\ detect_heading(lines[nodes[c].line_start + 1], formatting_notes) # None
              /\ detect_heading(lines[nodes[c].line_start + 1], formatting_notes).level = 1

\* C3: after every line, the levels in hierarchy_stack strictly increase from
\* bottom to top.
C3_StackStrictlyIncreasing ==
    \A i \in 1..(Len(hierarchy_stack) - 1) :
        hierarchy_stack[i][1] < hierarchy_stack[i + 1][1]

\* C3 witness: a heading was popped by a heading of a level not above its own,
\* and the stack still holds two open ancestors
C3_Witness ==
    /\ Len(hierarchy_stack) >= 2
    /\ \E r \in DOMAIN nodes :
          /\ nodes[r].kind = "Topic"
          /\ nodes[r].content_type = "heading"
          /\ nodes[r].level > hierarchy_stack[Len(hierarchy_stack)][1]
          /\ \A i \in DOMAIN hierarchy_stack : hierarchy_stack[i][2] # r

\* C4: in the returned document the children of every Chapter and Topic are in
\* non-decreasing line_start order.
C4_ChildrenOrdered ==
    Done =>
        \A r \in Reachable :
            \A i \in 1..(Len(Children(nodes[r])) - 1) :
                nodes[Children(nodes[r])[i]].line_start
                    <= nodes[Children(nodes[r])[i + 1]].line_start

\* C4 witness: a returned node with a content child followed by a heading child
C4_Witness ==
    /\ Done
    /\ \E r \in Reachable :
          /\ Len(Children(nodes[r])) >= 2
          /\ nodes[Children(nodes[r])[1]].content_type # "heading"
          /\ nodes[Children(nodes[r])[2]].content_type = "heading"

\* C5: Scenario A yields exactly 2 chapters, Intro and Body, each with exactly
\* one section, a paragraph, with content Hello world and More text.
C5_ScenarioA ==
    (Done /\ lines = SCENARIO_A /\ formatting_notes = NoFormatting) =>
        /\ Len(chapters) = 2
        /\ nodes[chapters[1]].title = T_Intro
        /\ nodes[chapters[2]].title = T_Body
        /\ \A k \in 1..2 :
              /\ Len(nodes[chapters[k]].sections) = 1
              /\ nodes[nodes[chapters[k]].sections[1]].content_type = "paragraph"
        /\ nodes[nodes[chapters[1]].sections[1]].content = T_HelloWorld
        /\ nodes[nodes[chapters[2]].sections[1]].content = T_MoreText

\* the shape Scenario B yields, up to the content of the bullet block
ScenarioB_Shape(content) ==
    /\ Len(chapters) = 1
    /\ nodes[chapters[1]].title = T_ChapterA
    /\ Len(nodes[chapters[1]].sections) = 1
    /\ LET sec == nodes[nodes[chapters[1]].sections[1]]
       IN  /\ sec.content_type = "heading"
           /\ sec.title = T_SectionA1
           /\ Len(sec.subsections) = 1
           /\ nodes[sec.subsections[1]].content_type = "bullet_block"
           /\ nodes[sec.subsections[1]].content = content
           /\ nodes[sec.subsections[1]].subsections = <<>>

\* C6 as stated: Scenario B yields one Chapter, Chapter A, with one section,
\* the heading Topic Section A.1, with one subsection, a bullet_block whose
\* content is item1\nitem2.
C6_ScenarioB_Original ==
    (Done /\ lines = SCENARIO_B /\ formatting_notes = NoFormatting) =>
        ScenarioB_Shape(T_Items)

\* C6 amended: the same, the content of the bullet_block being the two raw
\* lines joined by a newline, bullet markers included: - item1\n- item2.
C6_ScenarioB ==
    (Done /\ lines = SCENARIO_B /\ formatting_notes = NoFormatting) =>
        ScenarioB_Shape(T_RawItems)

\* C6 witness: build has returned on Scenario B
C6_Witness ==
    Done /\ lines = SCENARIO_B /\ formatting_notes = NoFormatting /\ Len(nodes) = 3

\* C7: Scenario E yields a chapter A whose sections hold the level-3 heading
\* Topic B and the level-2 heading Topic C as siblings.
C7_ScenarioE ==
    (Done /\ lines = SCENARIO_E /\ formatting_notes = NoFormatting) =>
        /\ Len(chapters) >= 1
        /\ nodes[chapters[1]].title = <<"A">>
        /\ \E i, j \in DOMAIN nodes[chapters[1]].sections :
              LET b == nodes[nodes[chapters[1]].sections[i]]
                  c == nodes[nodes[chapters[1]].sections[j]]
              IN  /\ i < j
                  /\ b.content_type = "heading" /\ b.title = <<"B">> /\ b.level = 3
                  /\ c.content_type = "heading" /\ c.title = <<"C">> /\ c.level = 2

\* C8: when no line is classified as a heading, build returns an empty
\* chapters list, and no node was created.
C8_NoHeadingNoChapters ==
    (Done /\ NoHeadingLine) => chapters = <<>> /\ nodes = <<>>

\* C8 witness: build has returned on a text of several lines, content lines
\* among them, none of them a heading
C8_Witness ==
    /\ Done
    /\ NoHeadingLine
    /\ Len(lines) >= 3
    /\ Len(current_content_block) >= 2

\* C9: every Topic reachable from the chapters of the returned document has
\* level >= 2.
C9_TopicLevelAtLeast2 ==
    Done => \A r \in ReachableTopics : nodes[r].level >= 2

\* C9 witness: a returned document with a content Topic directly under a
\* chapter, built from a text that also has a heading of level 0
C9_Witness ==
    /\ Done
    /\ \E r \in ReachableTopics :
          nodes[r].content_type # "heading" /\ nodes[r].level = 2
    /\ \E r \in DOMAIN nodes : nodes[r].kind = "Topic" /\ nodes[r].level = 0

\* C10: the pre-order walk of the map to_dict returns yields the same sequence
\* of (title, level, content_type, line_start, line_end) tuples as the
\* pre-order walk of the document in memory.
C10_RoundTrip ==
    pc = "serialized" => WalkOutput = WalkDoc

\* C10 witness: a serialized document in which a Topic has a subsection that
\* itself has a subsection
C10_Witness ==
    /\ pc = "serialized"
    /\ \E r \in ReachableTopics :
          /\ nodes[r].subsections # <<>>
          /\ nodes[nodes[r].subsections[1]].subsections # <<>>

\* the maps of the serialized document, in pre-order: the j-th map is the map
\* of the j-th node of ReachableSeq
RECURSIVE MapsOf(_)
MapsOf(d) ==
    <<d>>
    \o (IF "sections" \in DOMAIN d
        THEN Flatten([j \in DOMAIN d.sections |-> MapsOf(d.sections[j])])
        ELSE <<>>)
    \o (IF "subsections" \in DOMAIN d
        THEN Flatten([j \in DOMAIN d.subsections |-> MapsOf(d.subsections[j])])
        ELSE <<>>)

OutputMaps == Flatten([k \in DOMAIN output.chapters |-> MapsOf(output.chapters[k])])

\* C11 as stated: the map of a node has its child-sequence key (sections of a
\* Chapter, subsections of a Topic) exactly when the node has children.
C11_ChildKeyOnlyWhenNonEmpty_Original ==
    pc = "serialized" =>
        /\ Len(OutputMaps) = Len(ReachableSeq)
        /\ \A j \in DOMAIN OutputMaps :
              LET node == nodes[ReachableSeq[j]]
              IN  IF node.kind = "Chapter"
                  THEN "sections" \in DOMAIN OutputMaps[j] <=> node.sections # <<>>
                  ELSE "subsections" \in DOMAIN OutputMaps[j] <=> node.subsections # <<>>

\* C11 amended: the map of a Topic has the key subsections exactly when the
\* Topic has subsections, and then as many entries as the Topic has
\* subsections; the map of a Chapter always has the key sections, an empty
\* sequence when the Chapter has no sections.
C11_ChildKey ==
    pc = "serialized" =>
        /\ Len(OutputMaps) = Len(ReachableSeq)
        /\ \A j \in DOMAIN OutputMaps :
              LET node == nodes[ReachableSeq[j]]
                  d == OutputMaps[j]
              IN  IF node.kind = "Chapter"
                  THEN /\ "sections" \in DOMAIN d
                       /\ "subsections" \notin DOMAIN d
                       /\ Len(d.sections) = Len(node.sections)
                  ELSE /\ "sections" \notin DOMAIN d
                       /\ "subsections" \in DOMAIN d <=> node.subsections # <<>>
                       /\ "subsections" \in DOMAIN d =>
                             Len(d.subsections) = Len(node.subsections)

\* C11 witness: a serialized document with a Chapter without sections, a Topic
\* without subsections and a Topic with subsections
C11_Witness ==
    /\ pc = "serialized"
    /\ \E c \in Range(chapters) : nodes[c].sections = <<>>
    /\ \E r \in ReachableTopics : nodes[r].subsections = <<>>
    /\ \E r \in ReachableTopics : nodes[r].subsections # <<>>

\* the signals a stripped line carries, in priority order after the formatted one
TextSignals(s) ==
    SelectSeq(<<"marker", "numbered", "keyword">>,
              LAMBDA t : \/ t = "marker" /\ HEADING_MARKER(s)
                         \/ t = "numbered" /\ NUMBERED_HEADING(s)
                         \/ t = "keyword" /\ HEADING_KEYWORDS(s))

\* the formatting hint carries the formatted signal
FormattedSignal(f) == "is_heading" \in DOMAIN f /\ f["is_heading"]

\* the signals of a line under a hint, highest priority first
Signals(line, f) ==
    IF Strip(line) = <<>> THEN <<>>
    ELSE (IF FormattedSignal(f) THEN <<"formatted">> ELSE <<>>) \o TextSignals(Strip(line))

\* the level each signal gives
SignalLevel(t, s, f) ==
    CASE t = "formatted" -> IF "heading_level" \in DOMAIN f THEN f["heading_level"] ELSE 2
      [] t = "marker" -> detect_heading(s, NoFormatting).level
      [] t = "numbered" -> detect_heading(s, NoFormatting).level
      [] t = "keyword" -> 1

\* C12: for the line processed last, detect_heading returns None when the
\* line carries no signal, and otherwise the type and level of the first of
\* formatted > marker > numbered > keyword the line carries; a hint that is
\* empty, lacks is_heading or has is_heading false gives the result of the
\* text signals alone.
C12_DetectPriority ==
    \A i \in {line_num} \ {0} :
        LET h == detect_heading(lines[i], formatting_notes)
            sig == Signals(lines[i], formatting_notes)
        IN  /\ sig = <<>> <=> h = None
            /\ sig # <<>> =>
                  /\ h.type = sig[1]
                  /\ h.level = SignalLevel(sig[1], Strip(lines[i]), formatting_notes)
                  /\ h.original = Strip(lines[i])
            /\ ~FormattedSignal(formatting_notes) =>
                  h = detect_heading(lines[i], NoFormatting)

\* C12 witness: a marker line of level 2 processed under a hint with is_heading
\* true and heading_level 3 has become a Topic of level 3 titled with the
\* whole line
C12_Witness ==
    /\ formatting_notes = [is_heading |-> TRUE, heading_level |-> 3]
    /\ \E i \in 1..line_num :
          /\ lines[i] = L_MARK2
          /\ Signals(lines[i], formatting_notes) = <<"formatted", "marker">>
          /\ \E r \in DOMAIN nodes :
                /\ nodes[r].kind = "Topic"
                /\ nodes[r].level = 3
                /\ nodes[r].title = L_MARK2
                /\ nodes[r].line_start = i - 1

\* the content Topics a flush has created
ContentTopics ==
    {r \in DOMAIN nodes : nodes[r].kind = "Topic" /\ nodes[r].content_type # "heading"}

\* the block of lines a content Topic was created from
BlockOf(r) == [k \in DOMAIN provenance[r] |-> lines[provenance[r][k] + 1]]

\* the number of lines of a block that match a pattern
Matching(block, P(_)) == Cardinality({k \in DOMAIN block : P(block[k])})

Prefix(s, n) == SubSeq(s, 1, IF Len(s) < n THEN Len(s) ELSE n)

ELLIPSIS == <<".", ".", ".">>

\* C14 as stated: the title of every content Topic is the extracted term when
\* the block is classified definition, and otherwise the first 50 characters of
\* the block's first line, followed by an ellipsis exactly when the line is
\* longer than 50 characters, whatever its length.
C14_Title_Original ==
    \A r \in ContentTopics :
        LET first == BlockOf(r)[1]
        IN  nodes[r].title =
               IF nodes[r].content_type = "definition"
               THEN identify_definition(first).term
               ELSE Prefix(first, TITLE_CUT)
                    \o (IF Len(first) > TITLE_CUT THEN ELLIPSIS ELSE <<>>)

\* C14 amended: the title of every content Topic is the extracted term when the
\* block is classified definition (the block <<L_TERM>> gets content_type
\* definition and title Term); otherwise, when the first line is shorter than
\* 100 characters, its first 50 characters followed by an ellipsis exactly when
\* it is longer than 50 characters; otherwise, when the first line has 100
\* characters or more, the empty title.
C14_Title ==
    \A r \in ContentTopics :
        LET first == BlockOf(r)[1]
        IN  /\ nodes[r].title =
                  IF nodes[r].content_type = "definition"
                  THEN identify_definition(first).term
                  ELSE IF Len(first) < TITLE_MAX_LINE
                  THEN Prefix(first, TITLE_CUT)
                       \o (IF Len(first) > TITLE_CUT THEN ELLIPSIS ELSE <<>>)
                  ELSE <<>>
            /\ BlockOf(r) = <<L_TERM>> =>
                  /\ nodes[r].content_type = "definition"
                  /\ nodes[r].title = <<"T", "e", "r", "m">>

\* C14 witness: a content Topic whose first line has 100 characters has the
\* empty title
C14_Witness ==
    \E r \in ContentTopics :
        /\ Len(BlockOf(r)[1]) = TITLE_MAX_LINE
        /\ nodes[r].content_type = "paragraph"
        /\ nodes[r].title = <<>>

\* no state is an error state: control can advance until to_dict has
\* returned, the loop index stays within the lines, a returned document has
\* consumed every line, and the empty text returns no chapter
C15_NoErrorState ==
    /\ pc \in {"loop", "flushed", "done", "serialized"}
    /\ pc # "serialized" => ENABLED <<Advance>>_<<pc, line_num>>
    /\ line_num \in 0..Len(lines)
    /\ pc # "loop" => line_num = Len(lines)
    /\ (Done /\ lines = <<L_BLANK>>) => chapters = <<>>

\* a step of the loop consumes exactly the next line, no other step consumes a
\* line, and no step changes the input
C15_OneLinePerStep ==
    /\ lines' = lines
    /\ formatting_notes' = formatting_notes
    /\ \/ pc = "loop" /\ pc' = "loop" /\ line_num < Len(lines) /\ line_num' = line_num + 1
       \/ pc # pc' /\ line_num = Len(lines) /\ line_num' = line_num

HeadingAt(i) == detect_heading(lines[i + 1], formatting_notes)

\* the nodes created for heading lines: the Chapters and the heading Topics
HeadingNodes == DOMAIN nodes \ ContentTopics

\* C16: when a heading is processed the pending buffer is flushed and cleared
\* first, unconditionally: right after a heading line has been processed
\* current_content_block is empty, and no content Topic holds a line that
\* precedes the heading of a node created before it.
C16_BufferEmptyAfterHeading ==
    /\ (pc = "loop" /\ line_num >= 1 /\ HeadingAt(line_num - 1) # None)
          => current_content_block = <<>>
    /\ \A r \in ContentTopics : \A q \in HeadingNodes :
          q < r => \A k \in Range(provenance[r]) : k > nodes[q].line_start

\* C17: every content Topic has line_start equal to the input index of the
\* first line of its content.
C17_LineStartIsFirstLine ==
    \A r \in ContentTopics : nodes[r].line_start = provenance[r][1]

\* the entries of the stack whose level is below a level
Below(stack, level) == SelectSeq(stack, LAMBDA e : e[1] < level)

\* the nodes that have a node among their children
ParentsOf(nodes_, r) == {q \in DOMAIN nodes_ : r \in Range(Children(nodes_[q]))}

\* a step of the loop on a heading line of a level above 1 while the stack
\* holds an entry of a lower level: the stack becomes its entries of a lower
\* level followed by the new heading Topic, and the new Topic is the last child
\* of the topmost of these entries, and of no other node
C18_Step ==
    (/\ pc = "loop" /\ line_num < Len(lines) /\ line_num' = line_num + 1
     /\ HeadingAt(line_num) # None
     /\ HeadingAt(line_num).level > 1
     /\ Below(hierarchy_stack, HeadingAt(line_num).level) # <<>>)
    =>
    LET level == HeadingAt(line_num).level
        kept == Below(hierarchy_stack, level)
        parent == kept[Len(kept)][2]
        new == Len(nodes')
    IN  /\ new > Len(nodes)
        /\ nodes'[new].kind = "Topic"
        /\ nodes'[new].content_type = "heading"
        /\ nodes'[new].level = level
        /\ nodes'[new].title = HeadingAt(line_num).title
        /\ nodes'[new].line_start = line_num
        /\ hierarchy_stack' = Append(kept, <<level, new>>)
        /\ Children(nodes'[parent]) # <<>>
        /\ Children(nodes'[parent])[Len(Children(nodes'[parent]))] = new
        /\ ParentsOf(nodes', new) = {parent}
        /\ \A e \in Range(hierarchy_stack) :
              e[1] < level => e[1] <= nodes[parent].level

\* C18: for a heading of level L > 1 arriving while the stack holds an entry of
\* level < L, build pops every entry of level >= L, attaches the new heading
\* Topic as the last child of the remaining stack top, the nearest open
\* ancestor of a strictly lower level, and pushes the new node.
C18_AttachToNearestAncestor == [][C18_Step]_vars

\* C18 witness: a heading of level 2 has just popped a heading of level 3 that
\* was attached to the chapter with level 2 skipped, and is now the last child
\* of the chapter and on the stack above it
C18_Witness ==
    /\ pc = "loop"
    /\ line_num >= 3
    /\ HeadingAt(line_num - 1) # None
    /\ Len(hierarchy_stack) = 2
    /\ hierarchy_stack[2] = <<2, Len(nodes)>>
    /\ nodes[hierarchy_stack[1][2]].kind = "Chapter"
    /\ \E j \in DOMAIN nodes[hierarchy_stack[1][2]].sections :
          LET c == nodes[hierarchy_stack[1][2]].sections[j]
          IN  nodes[c].content_type = "heading" /\ nodes[c].level = 3
    /\ nodes[hierarchy_stack[1][2]].sections[Len(nodes[hierarchy_stack[1][2]].sections)]
          = Len(nodes)

\* the 0-based indices of the processed lines that are headings of level 1
Level1Lines ==
    SelectSeq([i \in 1..line_num |-> i - 1],
              LAMBDA i : HeadingAt(i) # None /\ HeadingAt(i).level = 1)

\* C19: chapters holds one Chapter per processed heading line of level 1, in
\* input order, keyword headings included; right after a heading of level 1 the
\* stack holds that heading's chapter and nothing else.
C19_ChapterPerLevel1Heading ==
    /\ Len(chapters) = Len(Level1Lines)
    /\ \A k \in DOMAIN chapters :
          /\ nodes[chapters[k]].kind = "Chapter"
          /\ nodes[chapters[k]].level = 1
          /\ nodes[chapters[k]].line_start = Level1Lines[k]
          /\ nodes[chapters[k]].title = HeadingAt(Level1Lines[k]).title
    /\ \A c \in DOMAIN nodes : nodes[c].kind = "Chapter" => c \in Range(chapters)
    /\ \A i \in 1..line_num :
          (HeadingAt(i - 1) # None /\ HeadingAt(i - 1).type = "keyword")
             => HeadingAt(i - 1).level = 1
    /\ (pc = "loop" /\ line_num >= 1 /\ HeadingAt(line_num - 1) # None
        /\ HeadingAt(line_num - 1).level = 1)
          => hierarchy_stack = << <<1, chapters[Len(chapters)]>> >>

\* C19 witness: a keyword heading met under an open chapter and an open
\* section has just become the second chapter, alone on the stack
C19_Witness ==
    /\ pc = "loop"
    /\ line_num >= 3
    /\ HeadingAt(line_num - 1) # None
    /\ HeadingAt(line_num - 1).type = "keyword"
    /\ Len(chapters) = 2
    /\ hierarchy_stack = << <<1, chapters[2]>> >>
    /\ nodes[chapters[1]].sections # <<>>
    /\ nodes[nodes[chapters[1]].sections[1]].content_type = "heading"

\* the heading Topics attached to no node
Orphans ==
    {r \in DOMAIN nodes :
        /\ nodes[r].kind = "Topic"
        /\ nodes[r].content_type = "heading"
        /\ ParentsOf(nodes, r) = {}}

\* C20: a heading of level > 1 that finds no entry of a lower level on the
\* stack is attached to no node and is alone on the stack afterwards; the nodes
\* attached under an unattached heading are not reachable from chapters; and
\* while an unattached heading is the bottom of the stack every open node is one
\* of its descendants, the stack holding a chapter only as its bottom.
C20_OrphanHeading ==
    /\ (/\ pc = "loop" /\ line_num >= 1
        /\ HeadingAt(line_num - 1) # None
        /\ HeadingAt(line_num - 1).level > 1)
          => /\ hierarchy_stack # <<>>
             /\ hierarchy_stack[Len(hierarchy_stack)]
                   = <<HeadingAt(line_num - 1).level, Len(nodes)>>
             /\ Len(hierarchy_stack) = 1 <=> Len(nodes) \in Orphans
    /\ \A r \in Orphans : Range(PreOrder(nodes, r)) \cap Reachable = {}
    /\ \A r \in DOMAIN nodes : Cardinality(ParentsOf(nodes, r)) <= 1
    /\ hierarchy_stack # <<>> =>
          /\ \A i \in DOMAIN hierarchy_stack :
                hierarchy_stack[i][2] \in Range(PreOrder(nodes, hierarchy_stack[1][2]))
          /\ hierarchy_stack[1][2] \in Range(chapters) \cup Orphans
          /\ \A i \in 2..Len(hierarchy_stack) :
                nodes[hierarchy_stack[i][2]].kind = "Topic"

\* C20 witness: a returned document with a chapter, built from a text that
\* first had a heading of level > 1 attached to no node, under which a content
\* Topic and a deeper heading were attached
C20_Witness ==
    /\ Done
    /\ chapters # <<>>
    /\ \E r \in Orphans :
          /\ nodes[r].level > 1
          /\ \E j, k \in DOMAIN nodes[r].subsections :
                /\ nodes[nodes[r].subsections[j]].content_type = "heading"
                /\ nodes[nodes[r].subsections[k]].content_type # "heading"
          /\ r < chapters[1]

\* the line of 0-based index i is blank
BlankAt(i) == Strip(lines[i + 1]) = <<>>

\* the line of 0-based index i is neither blank nor a heading
ContentAt(i) == ~BlankAt(i) /\ HeadingAt(i) = None

\* a step of the loop on a blank line with a non-empty stack and a non-empty
\* buffer: it flushes exactly when the line is the second of a blank run, and
\* then the new content Topic holds the buffer and ends at the last non-blank
\* line before the run
C21_Step ==
    (/\ pc = "loop" /\ line_num < Len(lines) /\ line_num' = line_num + 1
     /\ BlankAt(line_num)
     /\ hierarchy_stack # <<>>
     /\ current_content_block # <<>>)
    =>
    IF /\ line_num >= 2
       /\ BlankAt(line_num - 1)
       /\ ~BlankAt(line_num - 2)
    THEN /\ Len(nodes') = Len(nodes) + 1
         /\ nodes'[Len(nodes')].kind = "Topic"
         /\ nodes'[Len(nodes')].content = JoinLines(current_content_block)
         /\ nodes'[Len(nodes')].line_end = line_num - blank_line_count'
         /\ nodes'[Len(nodes')].line_end = line_num - 2
         /\ current_content_block' = <<>>
    ELSE /\ nodes' = nodes
         /\ current_content_block' = current_content_block

\* two non-heading lines with a single blank line between them are in the same
\* content Topic
C21_SingleBlankKeeps ==
    \A r \in ContentTopics : \A k \in 0..(Len(lines) - 3) :
        (ContentAt(k) /\ BlankAt(k + 1) /\ ContentAt(k + 2))
           => (k \in Range(provenance[r]) <=> k + 2 \in Range(provenance[r]))

\* C21: with a non-empty stack and a non-empty buffer a blank line flushes
\* exactly when it is the second consecutive blank line; a single blank line
\* between two non-heading lines never splits them; and the node flushed at a
\* blank run has line_end equal to the index of the last non-blank line before
\* the run.
C21_BlankRunSegmentation == []C21_SingleBlankKeeps /\ [][C21_Step]_vars

\* C21 witness: the second blank line of a run has just flushed a content Topic
\* made of two lines that a single blank line separates
C21_Witness ==
    /\ pc = "loop"
    /\ line_num >= 6
    /\ BlankAt(line_num - 1) /\ BlankAt(line_num - 2)
    /\ current_content_block = <<>>
    /\ Len(nodes) \in ContentTopics
    /\ provenance[Len(nodes)] = <<line_num - 5, line_num - 3>>
    /\ BlankAt(line_num - 4)
    /\ nodes[Len(nodes)].line_end = line_num - 3

\* a step that creates a content Topic: the Topic is attached to the node on top
\* of the stack before the step, and to no other node, after the children that
\* node had, and its level is that node's level + 1; only the heading Topic
\* the same step creates can follow it
C22_Step ==
    (/\ Len(nodes') > Len(nodes)
     /\ nodes'[Len(nodes) + 1].kind = "Topic"
     /\ nodes'[Len(nodes) + 1].content_type # "heading")
    =>
    /\ hierarchy_stack # <<>>
    /\ LET top == hierarchy_stack[Len(hierarchy_stack)][2]
           new == Len(nodes) + 1
       IN  /\ nodes'[new].level = nodes[top].level + 1
           /\ nodes'[new].level = hierarchy_stack[Len(hierarchy_stack)][1] + 1
           /\ ParentsOf(nodes', new) = {top}
           /\ \/ Children(nodes'[top]) = Append(Children(nodes[top]), new)
              \/ /\ Len(nodes') = new + 1
                 /\ nodes'[new + 1].content_type = "heading"
                 /\ Children(nodes'[top]) = Children(nodes[top]) \o <<new, new + 1>>

\* every attached content Topic is one level below its parent, and every
\* heading Topic has the level the detector gave its line
C22_Levels ==
    /\ \A r \in ContentTopics : \A q \in ParentsOf(nodes, r) :
          nodes[r].level = nodes[q].level + 1
    /\ \A r \in ContentTopics : ParentsOf(nodes, r) # {}
    /\ \A r \in HeadingNodes :
          nodes[r].level = HeadingAt(nodes[r].line_start).level

\* C22: every content block is attached as the last child of the node on top
\* of the stack at flush time, with that node's level + 1; a heading Topic has
\* the detector's level, whatever its parent's level.
C22_ContentLevel == []C22_Levels /\ [][C22_Step]_vars

\* C22 witness: a heading Topic of level 3 attached to a chapter, two levels
\* above its parent's, with a content Topic of level 4 attached to it
C22_Witness ==
    \E c \in Range(chapters) : \E h \in Range(nodes[c].sections) :
        /\ nodes[h].content_type = "heading"
        /\ nodes[h].level = 3
        /\ \E r \in Range(nodes[h].subsections) :
              r \in ContentTopics /\ nodes[r].level = 4

\* the node reached from r by following last children down to a node without
\* children: the last node of the pre-order walk of r
LastDescendant(nodes_, r) == PreOrder(nodes_, r)[Len(PreOrder(nodes_, r))]

\* the post-pass step: a Chapter with sections gets the line_end of the last
\* descendant of its last section, a Chapter without sections its own
\* line_start, and nothing else changes
C23_Step ==
    (pc = "flushed" /\ pc' = "done")
    =>
    /\ DOMAIN nodes' = DOMAIN nodes
    /\ chapters' = chapters
    /\ \A r \in DOMAIN nodes :
          IF nodes[r].kind = "Chapter"
          THEN /\ nodes'[r] = [nodes[r] EXCEPT !.line_end = nodes'[r].line_end]
               /\ nodes'[r].line_end =
                     IF nodes[r].sections = <<>>
                     THEN nodes[r].line_start
                     ELSE nodes[LastDescendant(nodes,
                              nodes[r].sections[Len(nodes[r].sections)])].line_end
          ELSE nodes'[r] = nodes[r]

\* in the returned document every heading Topic has line_end = line_start, the
\* index of its own heading line, and every Chapter has the line_end of the
\* post-pass
C23_Returned ==
    Done =>
        /\ \A r \in HeadingNodes :
              /\ HeadingAt(nodes[r].line_start) # None
              /\ nodes[r].title = HeadingAt(nodes[r].line_start).title
              /\ nodes[r].kind = "Topic" => nodes[r].line_end = nodes[r].line_start
        /\ \A c \in Range(chapters) :
              nodes[c].line_end =
                 IF nodes[c].sections = <<>>
                 THEN nodes[c].line_start
                 ELSE nodes[LastDescendant(nodes, c)].line_end

\* C23: the post-pass sets each Chapter's line_end to the line_end of the node
\* reached by following last children from its last section, or to its
\* line_start when it has no sections, and changes no other field of any node,
\* so every heading Topic keeps line_end = line_start = its own line index.
C23_PostPass == []C23_Returned /\ [][C23_Step]_vars

\* C23 witness: a returned chapter whose last section is a heading Topic with a
\* child, the chapter ending after that Topic's own line_end, and a returned
\* chapter without sections
C23_Witness ==
    /\ Done
    /\ \E c \in Range(chapters) :
          /\ nodes[c].sections # <<>>
          /\ LET last == nodes[c].sections[Len(nodes[c].sections)]
             IN  /\ nodes[last].content_type = "heading"
                 /\ nodes[last].subsections # <<>>
                 /\ nodes[last].line_end = nodes[last].line_start
                 /\ nodes[c].line_end > nodes[last].line_end
    /\ \E c \in Range(chapters) :
          nodes[c].sections = <<>> /\ nodes[c].line_end = nodes[c].line_start

\* the 0-based indices of the processed heading lines
ProcessedHeadings == {i \in 0..(line_num - 1) : HeadingAt(i) # None}

\* the node created for the most recently processed heading
LastHeadingNode == Max(HeadingNodes)

\* C24: once a heading has been processed the stack is never empty and its top
\* is the node created for the most recently processed heading; every content
\* Topic is a child of the heading node created last before it; and in every
\* child list all content Topics precede all heading Topics.
C24_TopIsLastHeading ==
    /\ ProcessedHeadings # {} =>
          /\ hierarchy_stack # <<>>
          /\ HeadingNodes # {}
          /\ hierarchy_stack[Len(hierarchy_stack)][2] = LastHeadingNode
          /\ nodes[LastHeadingNode].line_start = Max(ProcessedHeadings)
    /\ ProcessedHeadings = {} => hierarchy_stack = <<>> /\ nodes = <<>>
    /\ \A r \in ContentTopics :
          ParentsOf(nodes, r) = {Max({q \in HeadingNodes : q < r})}
    /\ \A q \in DOMAIN nodes :
          \A i, j \in DOMAIN Children(nodes[q]) :
              (/\ i < j
               /\ Children(nodes[q])[j] \in ContentTopics)
                 => Children(nodes[q])[i] \in ContentTopics

\* C24 witness: content lines are being read under a section heading whose
\* parent chapter already holds a content Topic followed by that heading
C24_Witness ==
    /\ pc = "loop"
    /\ line_num >= 1
    /\ ContentAt(line_num - 1)
    /\ Len(hierarchy_stack) = 2
    /\ LET c == hierarchy_stack[1][2]
       IN  /\ Len(Children(nodes[c])) = 2
           /\ Children(nodes[c])[1] \in ContentTopics
           /\ Children(nodes[c])[2] = hierarchy_stack[2][2]
           /\ Children(nodes[c])[2] = LastHeadingNode

\* every heading line of the input has a level of 1 or more
HeadingLevelsPositive ==
    \A i \in 0..(Len(lines) - 1) : HeadingAt(i) # None => HeadingAt(i).level >= 1

\* the 0-based indices of the heading lines of level 1
ChapterLines == {i \in 0..(Len(lines) - 1) : HeadingAt(i) # None /\ HeadingAt(i).level = 1}

\* the non-blank, non-heading lines after the first heading of level 1
BodyLines ==
    {k \in 0..(Len(lines) - 1) :
        ContentAt(k) /\ \E i \in ChapterLines : i < k}

\* the number of times line k occurs in the content Topic r
Occurrences(r, k) == Cardinality({j \in DOMAIN provenance[r] : provenance[r][j] = k})

\* C25: when every heading has a level >= 1, in the returned document every
\* non-blank, non-heading line after the first heading of level 1 is in the
\* content of exactly one content Topic reachable from chapters, once, and the
\* lines of each content Topic are in input order.
C25_NoLossNoDuplication ==
    (Done /\ HeadingLevelsPositive) =>
        /\ \A k \in BodyLines :
              /\ Cardinality({r \in ContentTopics : k \in Range(provenance[r])}) = 1
              /\ \E r \in ContentTopics \cap Reachable : Occurrences(r, k) = 1
        /\ \A r \in ContentTopics :
              /\ nodes[r].content = JoinLines(BlockOf(r))
              /\ \A i, j \in DOMAIN provenance[r] :
                    i < j => provenance[r][i] < provenance[r][j]

\* C25 witness: a returned document, all headings of level >= 1, with three
\* lines after the first chapter heading held by two reachable content Topics
C25_Witness ==
    /\ Done
    /\ HeadingLevelsPositive
    /\ Cardinality(BodyLines) >= 3
    /\ \E r1, r2 \in ContentTopics \cap Reachable :
          /\ r1 # r2
          /\ Len(provenance[r1]) >= 2
          /\ BodyLines = Range(provenance[r1]) \cup Range(provenance[r2])

\* C26: when every heading has a level >= 1, from the first heading of level 1
\* onward the bottom of the stack is the most recently created Chapter, and
\* every Topic created after a Chapter is reachable from the Chapter created
\* last before it.
C26_BottomIsLastChapter ==
    (HeadingLevelsPositive /\ chapters # <<>>) =>
        /\ hierarchy_stack # <<>>
        /\ hierarchy_stack[1] = <<1, chapters[Len(chapters)]>>
        /\ chapters[Len(chapters)] = Max(Range(chapters))
        /\ \A r \in DOMAIN nodes :
              (nodes[r].kind = "Topic" /\ r > chapters[1]) =>
                 /\ r \in Range(PreOrder(nodes, Max({c \in Range(chapters) : c < r})))
                 /\ r \in Reachable

\* C26 witness: a returned document, all headings of level >= 1, whose second
\* chapter holds a heading Topic with a content Topic under it
C26_Witness ==
    /\ Done
    /\ HeadingLevelsPositive
    /\ Len(chapters) >= 2
    /\ \E h \in Range(nodes[chapters[2]].sections) :
          /\ nodes[h].content_type = "heading"
          /\ \E r \in Range(nodes[h].subsections) : r \in ContentTopics

\* the heading nodes of level 0
ZeroHeadings == {q \in HeadingNodes : nodes[q].level = 0}

\* the nodes created after the heading node z of level 0 and before the next
\* Chapter
Following(z) ==
    {r \in DOMAIN nodes :
        /\ r > z
        /\ \A c \in Range(chapters) : ~(z < c /\ c <= r)}

Descendants(r) == Range(PreOrder(nodes, r)) \ {r}

\* C28: in the returned document every Chapter has line_start <= line_end, its
\* line_end is the maximum line_end of its descendants, and each chapter ends
\* strictly before the next chapter starts.
C28_ChapterSpans ==
    Done =>
        /\ \A c \in Range(chapters) :
              /\ nodes[c].line_start <= nodes[c].line_end
              /\ \A d \in Descendants(c) : nodes[d].line_end <= nodes[c].line_end
              /\ Descendants(c) # {} =>
                    \E d \in Descendants(c) : nodes[d].line_end = nodes[c].line_end
        /\ \A k \in 1..(Len(chapters) - 1) :
              nodes[chapters[k]].line_end < nodes[chapters[k + 1]].line_start

\* C28 witness: a returned document with two chapters, the first holding a
\* content Topic followed by a heading Topic on a later line
C28_Witness ==
    /\ Done
    /\ Len(chapters) = 2
    /\ Len(nodes[chapters[1]].sections) = 2
    /\ nodes[chapters[1]].sections[1] \in ContentTopics
    /\ nodes[nodes[chapters[1]].sections[1]].line_end
          < nodes[nodes[chapters[1]].sections[2]].line_end
    /\ nodes[chapters[1]].line_end > nodes[chapters[1]].line_start

\* the level a formatting hint with is_heading true gives every heading
HintLevel == IF "heading_level" \in DOMAIN formatting_notes
             THEN formatting_notes["heading_level"] ELSE 2

\* the 0-based indices of the processed non-blank lines
ProcessedNonBlank == {i \in 0..(line_num - 1) : ~BlankAt(i)}

\* C29: when the document-wide formatting_notes has is_heading true, every
\* non-blank line is a formatted heading of the level heading_level, 2 when
\* absent, no blank line is a heading, the buffer is always empty, there is one
\* heading node per processed non-blank line and no content Topic, and chapters
\* is empty when that level is not 1.
C29_DocumentWideHint ==
    FormattedSignal(formatting_notes) =>
        /\ \A i \in 0..(Len(lines) - 1) :
              IF BlankAt(i)
              THEN HeadingAt(i) = None
              ELSE /\ HeadingAt(i) # None
                   /\ HeadingAt(i).type = "formatted"
                   /\ HeadingAt(i).level = HintLevel
        /\ current_content_block = <<>>
        /\ ContentTopics = {}
        /\ Len(nodes) = Cardinality(ProcessedNonBlank)
        /\ \A r \in DOMAIN nodes :
              /\ nodes[r].level = HintLevel
              /\ nodes[r].line_start \in ProcessedNonBlank
        /\ HintLevel # 1 => chapters = <<>>
        /\ HintLevel = 1 => Len(chapters) = Len(nodes)

\* C29 witness: under a hint with is_heading true and no heading_level a text
\* of a plain line and a numbered heading line has returned two heading Topics
\* of level 2 and no chapter
C29_Witness ==
    /\ Done
    /\ formatting_notes = [is_heading |-> TRUE]
    /\ L_TEXT \in Range(lines)
    /\ L_H1 \in Range(lines)
    /\ chapters = <<>>
    /\ Len(nodes) = 2
    /\ \A r \in DOMAIN nodes : nodes[r].kind = "Topic" /\ nodes[r].level = 2

====
